---------------------------- MODULE Spec2Model ----------------------------
(***************************************************************************)
(* The reader/printer of jeffs_python_mal.                                 *)
(*                                                                         *)
(*   step1_read_print.py : lex (a lazy generator with an index cursor),    *)
(*                         PRINT, and the read-eval-print loop             *)
(*   step2_eval.py       : READ (eager, recursive string slicing), PRINT   *)
(*                         and its read-eval-print loop                    *)
(*                                                                         *)
(* A Python str is a sequence of characters; a character is a one-element  *)
(* TLA+ string.  Indices are Python's (0-based): At(s, i) is s[i].         *)
(***************************************************************************)
EXTENDS Integers, Sequences, FiniteSets, TLC

(* Longest input line typed at the prompt. *)
MaxLen == 3
(* Longest token list handed to PRINT directly. *)
MaxToks == 3

---------------------------------------------------------------------------
(* Characters *)

(* One representative of the characters outside string.printable. *)
NonAscii == "U+00E9"
(* Characters a TLA+ string cannot hold are named. *)
VT == "\\x0b"
BACKTICK == "\\x60"

INT_CHARS == {"0", "1", "2", "3", "4", "5", "6", "7", "8", "9"}

ASCII_LETTERS ==
    {"a", "b", "c", "d", "e", "f", "g", "h", "i", "j", "k", "l", "m",
     "n", "o", "p", "q", "r", "s", "t", "u", "v", "w", "x", "y", "z",
     "A", "B", "C", "D", "E", "F", "G", "H", "I", "J", "K", "L", "M",
     "N", "O", "P", "Q", "R", "S", "T", "U", "V", "W", "X", "Y", "Z"}

PUNCTUATION ==
    {"!", "\"", "#", "$", "%", "&", "'", "(", ")", "*", "+", ",", "-", ".",
     "/", ":", ";", "<", "=", ">", "?", "@", "[", "\\", "]", "^", "_", BACKTICK,
     "{", "|", "}", "~"}

STRING_WHITESPACE == {" ", "\t", "\n", "\r", VT, "\f"}

PRINTABLE_ASCII_CHARS ==
    INT_CHARS \cup ASCII_LETTERS \cup PUNCTUATION \cup STRING_WHITESPACE

WHITESPACE_CHARS == STRING_WHITESPACE \cup {","}

SYMBOL_CHARS == PRINTABLE_ASCII_CHARS \ WHITESPACE_CHARS

PARENS == {"(", ")"}

(* The characters input lines are drawn from: one or two of every class    *)
(* the code tells apart.                                                   *)
Chars == {"(", ")", "\"", "0", "1", "a", "_", " ", ",", NonAscii}

RECURSIVE SeqsUpTo(_, _)
SeqsUpTo(S, n) ==
    IF n = 0 THEN {<<>>}
    ELSE LET shorter == SeqsUpTo(S, n - 1)
         IN  shorter \cup {Append(s, c) : s \in {t \in shorter : Len(t) = n - 1}, c \in S}

Sources == SeqsUpTo(Chars, MaxLen)

At(source, i) == source[i + 1]

(* source[a:b] *)
Slice(source, a, b) == SubSeq(source, a + 1, b)

---------------------------------------------------------------------------
(* Tokens.  Every token is a record of one shape: text is a Symbol's name  *)
(* or a string's characters, num an int's value.                           *)

None == [type |-> "None", text |-> <<>>, num |-> 0]
LeftParen == [type |-> "LeftParen", text |-> <<>>, num |-> 0]
RightParen == [type |-> "RightParen", text |-> <<>>, num |-> 0]
Symbol(name) == [type |-> "Symbol", text |-> name, num |-> 0]
PyStr(value) == [type |-> "str", text |-> value, num |-> 0]
PyInt(value) == [type |-> "int", text |-> <<>>, num |-> value]
StringToken(value) == [type |-> "StringToken", text |-> value, num |-> 0]

(* Exceptions, as the loop prints them. *)
NoError == [kind |-> "none", index |-> 0, text |-> <<>>]
UnbalancedQuotes(i) == [kind |-> "unbalanced quotes starting at", index |-> i, text |-> <<>>]
NonPrintable(i) == [kind |-> "Non-printable-ASCII character at", index |-> i, text |-> <<>>]
ValueError(literal) == [kind |-> "invalid literal for int() with base 10:", index |-> 0, text |-> literal]
EOFError == [kind |-> "unbalanced quotes", index |-> 0, text |-> <<>>]

---------------------------------------------------------------------------
(* int() and str() of Python *)

DIGITS == <<"0", "1", "2", "3", "4", "5", "6", "7", "8", "9">>

DigitValue(c) == (CHOOSE d \in 1..10 : DIGITS[d] = c) - 1

(* int(text) accepts decimal digits with single underscores between them.  *)
(* (A sign or surrounding blanks, which int() also accepts, cannot reach   *)
(* it: the text starts with a digit and holds no WHITESPACE_CHARS.  The    *)
(* non-ASCII digits and blanks int() accepts are not among Chars: NonAscii *)
(* stands for a letter, which int() rejects.)                              *)
IntAccepts(text) ==
    /\ Len(text) > 0
    /\ \A i \in 1..Len(text) : text[i] \in INT_CHARS \cup {"_"}
    /\ text[1] # "_"
    /\ text[Len(text)] # "_"
    /\ \A i \in 1..(Len(text) - 1) : ~(text[i] = "_" /\ text[i + 1] = "_")

RECURSIVE IntValue(_)
IntValue(text) ==
    IF text = <<>> THEN 0
    ELSE LET last == text[Len(text)]
             rest == SubSeq(text, 1, Len(text) - 1)
         IN  IF last = "_" THEN IntValue(rest)
             ELSE 10 * IntValue(rest) + DigitValue(last)

RECURSIVE IntToStr(_)
IntToStr(n) ==
    IF n < 10 THEN <<DIGITS[n + 1]>>
    ELSE IntToStr(n \div 10) \o <<DIGITS[(n % 10) + 1]>>

---------------------------------------------------------------------------
(* step1_read_print.py: the sub-scanners.  Each returns the token and the  *)
(* index to continue at, or the exception it raises.                       *)

Scanned(token, index) == [raised |-> NoError, token |-> token, index |-> index]
Raised(error) == [raised |-> error, token |-> None, index |-> 0]

RECURSIVE scan_symbol_from(_, _, _)
scan_symbol_from(source, symbol_start_index, index) ==
    IF index + symbol_start_index >= Len(source)
    THEN Scanned(Symbol(Slice(source, symbol_start_index, Len(source))), Len(source))
    ELSE IF At(source, index + symbol_start_index) \in WHITESPACE_CHARS
         THEN Scanned(Symbol(Slice(source, symbol_start_index, index + symbol_start_index)),
                      index + symbol_start_index)
         ELSE scan_symbol_from(source, symbol_start_index, index + 1)

scan_symbol(source, symbol_start_index) ==
    scan_symbol_from(source, symbol_start_index, 0)

int(literal) ==
    IF IntAccepts(literal) THEN IntValue(literal) ELSE -1

RECURSIVE scan_int_from(_, _, _)
scan_int_from(source, int_start_index, index) ==
    LET end == IF index + int_start_index >= Len(source)
               THEN Len(source) ELSE index + int_start_index
        literal == Slice(source, int_start_index, end)
    IN  IF \/ index + int_start_index >= Len(source)
           \/ At(source, index + int_start_index) \in WHITESPACE_CHARS \cup PARENS
        THEN IF int(literal) >= 0
             THEN Scanned(PyInt(int(literal)), end)
             ELSE Raised(ValueError(literal))
        ELSE scan_int_from(source, int_start_index, index + 1)

scan_int(source, int_start_index) ==
    scan_int_from(source, int_start_index, 0)

RECURSIVE scan_str_from(_, _, _)
scan_str_from(source, str_start_index, current_char_index) ==
    IF current_char_index < Len(source)
    THEN IF At(source, current_char_index) = "\""
         THEN Scanned(PyStr(Slice(source, str_start_index + 1, current_char_index)),
                      current_char_index + 1)
         ELSE scan_str_from(source, str_start_index, current_char_index + 1)
    ELSE Raised(UnbalancedQuotes(str_start_index))

(* A faulty variant: the scan starts on the opening quote itself. *)
scan_str_from_opening_quote(source, str_start_index) ==
    scan_str_from(source, str_start_index, str_start_index)

scan_str(source, str_start_index) ==
    scan_str_from(source, str_start_index, str_start_index + 1)

(* One pass through the body of lex's while loop at cursor i < len(source): *)
(* the token it yields and the new cursor, or the exception, or a skip.     *)
(* (The second '"' branch of the source can never be taken.)                *)
(* A faulty variant: the `else` branch forgets `current_char_index += 1`. *)
Skipped_without_advance(index) == [raised |-> NoError, token |-> None, index |-> index - 1]

Skipped(index) == [raised |-> NoError, token |-> None, index |-> index]

lex_iteration(source, i) ==
    IF At(source, i) \notin PRINTABLE_ASCII_CHARS THEN Raised(NonPrintable(i))
    ELSE IF At(source, i) = "(" THEN Scanned(LeftParen, i + 1)
    ELSE IF At(source, i) = ")" THEN Scanned(RightParen, i + 1)
    ELSE IF At(source, i) = "\"" THEN scan_str(source, i)
    ELSE IF At(source, i) \in INT_CHARS THEN scan_int(source, i)
    ELSE IF At(source, i) \in SYMBOL_CHARS THEN scan_symbol(source, i)
    ELSE Skipped(i + 1)

---------------------------------------------------------------------------
(* step1_read_print.py: the printer *)

(* Python's truth value of a token: None, 0 and "" are false; an instance  *)
(* of a dataclass that defines neither __bool__ nor __len__ is true.       *)
Truthy(token) ==
    CASE token.type = "None" -> FALSE
      [] token.type = "int" -> token.num # 0
      [] token.type = "str" -> token.text # <<>>
      [] OTHER -> TRUE

(* `None` here means a non-paren token *)
token_type(token) ==
    IF token.type \in {"LeftParen", "RightParen"} THEN token.type ELSE "None"

rules(previous_token_type, current_token_type) ==
    CASE previous_token_type = "None" /\ current_token_type = "LeftParen" -> TRUE
      [] previous_token_type = "None" /\ current_token_type = "RightParen" -> FALSE
      [] previous_token_type = "None" /\ current_token_type = "None" -> TRUE
      [] previous_token_type = "LeftParen" /\ current_token_type = "LeftParen" -> FALSE
      [] previous_token_type = "LeftParen" /\ current_token_type = "RightParen" -> FALSE
      [] previous_token_type = "LeftParen" /\ current_token_type = "None" -> FALSE
      [] previous_token_type = "RightParen" /\ current_token_type = "LeftParen" -> TRUE
      [] previous_token_type = "RightParen" /\ current_token_type = "RightParen" -> FALSE
      [] previous_token_type = "RightParen" /\ current_token_type = "None" -> TRUE

preceed_with_space(previous, current) ==
    IF ~Truthy(previous) THEN FALSE
    ELSE rules(token_type(previous), token_type(current))

(* str(token), by each class's __str__ *)
str(token) ==
    CASE token.type = "LeftParen" -> <<"(">>
      [] token.type = "RightParen" -> <<")">>
      [] token.type = "Symbol" -> token.text
      [] token.type = "int" -> IntToStr(token.num)
      [] token.type = "str" -> token.text
      [] token.type = "StringToken" -> <<"\"">> \o token.text \o <<"\"">>

current_str(current) ==
    IF current.type = "str" THEN <<"\"">> \o current.text \o <<"\"">>
    ELSE str(current)

(* The body of PRINT's for loop: what it appends to strs (strs is kept     *)
(* joined, as "".join(strs) flattens it).                                  *)
print_append(strs, previous, current) ==
    strs \o (IF preceed_with_space(previous, current) THEN <<" ">> ELSE <<>>)
         \o current_str(current)

---------------------------------------------------------------------------
(* The read-eval-print loops *)

VARIABLES
    impl,                \* which script runs: "step1" or "step2"
    pc,                  \* "prompt": at input(); "PRINT": PRINT is pulling
                         \* tokens from lex; "printed": print() has written
                         \* the line's output; "exited": the loop has ended
    stdin_eof,           \* input() has met end-of-input
    source,              \* the line being processed
    current_char_index,  \* lex's cursor
    yielded,             \* the tokens lex has yielded for this line
    strs,                \* PRINT's strs, joined
    previous,            \* PRINT's previous
    out,                 \* what has been printed for this line
    discarded_before,    \* an earlier line raised after lex had yielded tokens
    tokens,              \* a token list handed to PRINT directly
    rendered,            \* PRINT(tokens)
    rerendered           \* PRINT(READ(PRINT(tokens))): its text or its exception

vars == <<impl, pc, stdin_eof, source, current_char_index, yielded, strs,
          previous, out, discarded_before, tokens, rendered, rerendered>>

lexer_vars == <<source, current_char_index, yielded>>
printer_vars == <<strs, previous>>
direct_vars == <<tokens, rendered, rerendered>>

(* A line written by print(): a rendering or an exception's message. *)
Printed(text) == [error |-> NoError, text |-> text]
PrintedError(e) == [error |-> e, text |-> <<>>]

Init ==
    /\ impl \in {"step1", "step2"}
    /\ pc = "prompt"
    /\ stdin_eof = FALSE
    /\ source = <<>>
    /\ current_char_index = 0
    /\ yielded = <<>>
    /\ strs = <<>>
    /\ previous = None
    /\ out = <<>>
    /\ discarded_before = FALSE
    /\ tokens = <<>>
    /\ rendered = <<>>
    /\ rerendered = Printed(<<>>)

(* source = input("user> "); tokens = READ(source); PRINT(EVAL(tokens))    *)
(* starts: lex is a generator, so nothing is scanned yet.                  *)
Step1Input ==
    /\ impl = "step1"
    /\ pc = "prompt"
    /\ \E line \in Sources : source' = line
    /\ current_char_index' = 0
    /\ yielded' = <<>>
    /\ strs' = <<>>
    /\ previous' = None
    /\ out' = <<>>
    /\ pc' = "PRINT"
    /\ UNCHANGED <<impl, stdin_eof, discarded_before, direct_vars>>

(* input() raises EOFError: break *)
InputEOF ==
    /\ pc = "prompt"
    /\ stdin_eof' = TRUE
    /\ pc' = "exited"
    /\ UNCHANGED <<impl, lexer_vars, printer_vars, out, discarded_before, direct_vars>>

(* PRINT pulls the next token; lex yields one; PRINT's loop body runs. *)
LexYield ==
    /\ pc = "PRINT"
    /\ current_char_index < Len(source)
    /\ LET step == lex_iteration(source, current_char_index)
       IN  /\ step.raised = NoError
           /\ step.token # None
           /\ current_char_index' = step.index
           /\ yielded' = Append(yielded, step.token)
           /\ strs' = print_append(strs, previous, step.token)
           /\ previous' = step.token
    /\ UNCHANGED <<impl, pc, stdin_eof, source, out, discarded_before, direct_vars>>

(* whitespace or a comma: the cursor advances and lex loops *)
LexSkip ==
    /\ pc = "PRINT"
    /\ current_char_index < Len(source)
    /\ LET step == lex_iteration(source, current_char_index)
       IN  /\ step.raised = NoError
           /\ step.token = None
           /\ current_char_index' = step.index
    /\ UNCHANGED <<impl, pc, stdin_eof, source, yielded, printer_vars, out,
                   discarded_before, direct_vars>>

(* A faulty variant: what was rendered before the exception is printed    *)
(* ahead of its message.                                                   *)
LexRaise_after_partial_output ==
    /\ pc = "PRINT"
    /\ current_char_index < Len(source)
    /\ LET step == lex_iteration(source, current_char_index)
       IN  /\ step.raised # NoError
           /\ out' = out \o <<Printed(strs), PrintedError(step.raised)>>
    /\ discarded_before' = (discarded_before \/ yielded # <<>>)
    /\ pc' = "printed"
    /\ UNCHANGED <<impl, stdin_eof, lexer_vars, printer_vars, direct_vars>>

(* lex raises inside PRINT; `except Exception as e: print(e)` *)
LexRaise ==
    /\ pc = "PRINT"
    /\ current_char_index < Len(source)
    /\ LET step == lex_iteration(source, current_char_index)
       IN  /\ step.raised # NoError
           /\ out' = Append(out, PrintedError(step.raised))
    /\ discarded_before' = (discarded_before \/ yielded # <<>>)
    /\ pc' = "printed"
    /\ UNCHANGED <<impl, stdin_eof, lexer_vars, printer_vars, direct_vars>>

(* lex is exhausted: PRINT returns "".join(strs) and the loop prints it *)
LexStop ==
    /\ pc = "PRINT"
    /\ current_char_index >= Len(source)
    /\ out' = Append(out, Printed(strs))
    /\ pc' = "printed"
    /\ UNCHANGED <<impl, stdin_eof, lexer_vars, printer_vars, discarded_before, direct_vars>>

LexNext == LexYield \/ LexSkip \/ LexRaise \/ LexStop

(* `while True`: back to input().  The finished frames of lex and PRINT    *)
(* are gone, and source, tokens and the output of the pass are not read    *)
(* again before they are rebound.                                          *)
LoopBack ==
    /\ pc = "printed"
    /\ pc' = "prompt"
    /\ source' = <<>>
    /\ current_char_index' = 0
    /\ yielded' = <<>>
    /\ strs' = <<>>
    /\ previous' = None
    /\ out' = <<>>
    /\ UNCHANGED <<impl, stdin_eof, discarded_before, direct_vars>>

---------------------------------------------------------------------------
(* step1_read_print.py: lex, READ and PRINT as whole functions (the token  *)
(* list a consumer gets by exhausting the generator, or the exception).    *)

Tokens(toks) == [raised |-> NoError, tokens |-> toks]
Failed(error) == [raised |-> error, tokens |-> <<>>]

RECURSIVE lex_from(_, _, _)
lex_from(src, i, toks) ==
    IF i < Len(src)
    THEN LET step == lex_iteration(src, i)
         IN  IF step.raised # NoError THEN Failed(step.raised)
             ELSE IF step.token = None THEN lex_from(src, step.index, toks)
             ELSE lex_from(src, step.index, Append(toks, step.token))
    ELSE Tokens(toks)

lex(src) == lex_from(src, 0, <<>>)

READ(src) == lex(src)

EVAL(toks) == toks

RECURSIVE PRINT_from(_, _, _, _)
PRINT_from(toks, k, joined, prev) ==
    IF k > Len(toks) THEN joined
    ELSE PRINT_from(toks, k + 1, print_append(joined, prev, toks[k]), toks[k])

PRINT(toks) == PRINT_from(toks, 1, <<>>, None)

---------------------------------------------------------------------------
(* step2_eval.py *)

STEP2_DIGITS == {"0", "1", "2", "3", "4", "5", "6", "7", "8", "9"}
STEP2_SEPARATORS == {" ", "\n", "\t", ",", ";", "(", ")"}

(* The sub-readers return the token and the leftover source. *)
Read(token, leftover) == [raised |-> NoError, token |-> token, leftover |-> leftover]
ReadRaised(error) == [raised |-> error, token |-> None, leftover |-> <<>>]

RECURSIVE read_str_from(_, _, _)
read_str_from(src, index, result) ==
    IF index >= Len(src) THEN ReadRaised(EOFError)
    ELSE IF At(src, index) = "\""
         THEN Read(StringToken(result), Slice(src, index + 1, Len(src)))
         ELSE read_str_from(src, index + 1, Append(result, At(src, index)))

read_str(src) == read_str_from(src, 0, <<>>)

RECURSIVE read_int_from(_, _, _)
read_int_from(src, index, result) ==
    IF index >= Len(src) THEN Read(PyInt(int(result)), <<>>)
    ELSE IF At(src, index) \notin STEP2_DIGITS
         THEN Read(PyInt(int(result)), Slice(src, index, Len(src)))
         ELSE read_int_from(src, index + 1, Append(result, At(src, index)))

read_int(src) == read_int_from(src, 0, <<>>)

RECURSIVE read_symbol_from(_, _, _)
read_symbol_from(src, index, result) ==
    IF index >= Len(src) THEN Read(Symbol(result), <<>>)
    ELSE IF At(src, index) \in STEP2_SEPARATORS
         THEN Read(Symbol(result), Slice(src, index, Len(src)))
         ELSE read_symbol_from(src, index + 1, Append(result, At(src, index)))

read_symbol(src) == read_symbol_from(src, 0, <<>>)

(* READ's recursion on the leftover source, the tokens read so far carried *)
(* along: [a] + READ(rest).                                                *)
RECURSIVE step2_READ_from(_, _)
step2_READ_from(src, toks) ==
    IF src = <<>> THEN Tokens(toks)
    ELSE IF At(src, 0) = "("
         THEN step2_READ_from(Slice(src, 1, Len(src)), Append(toks, LeftParen))
    ELSE IF At(src, 0) = ")"
         THEN step2_READ_from(Slice(src, 1, Len(src)), Append(toks, RightParen))
    ELSE IF At(src, 0) = "\""
         THEN LET r == read_str(Slice(src, 1, Len(src)))
              IN  IF r.raised # NoError THEN Failed(r.raised)
                  ELSE step2_READ_from(r.leftover, Append(toks, r.token))
    ELSE IF At(src, 0) \in STEP2_DIGITS
         THEN LET r == read_int(src)
              IN  step2_READ_from(r.leftover, Append(toks, r.token))
    ELSE IF At(src, 0) \notin STEP2_SEPARATORS
         THEN LET r == read_symbol(src)
              IN  step2_READ_from(r.leftover, Append(toks, r.token))
    ELSE step2_READ_from(Slice(src, 1, Len(src)), toks)

step2_READ(src) == step2_READ_from(src, <<>>)

step2_preceed_with_space(prev, current) ==
    IF ~Truthy(prev) THEN FALSE
    ELSE rules(token_type(prev), token_type(current))

RECURSIVE step2_PRINT_from(_, _, _)
step2_PRINT_from(toks, index, joined) ==
    IF index >= Len(toks) THEN joined
    ELSE LET prev == IF index > 0 THEN At(toks, index - 1) ELSE None
             current == At(toks, index)
         IN  step2_PRINT_from(toks, index + 1,
                 joined \o (IF step2_preceed_with_space(prev, current)
                            THEN <<" ">> \o str(current) ELSE str(current)))

step2_PRINT(toks) == step2_PRINT_from(toks, 0, <<>>)

(* One pass of step2's loop on a line READ accepts. *)
Step2Print ==
    /\ impl = "step2"
    /\ pc = "prompt"
    /\ \E line \in Sources :
          LET read == step2_READ(line)
          IN  /\ read.raised = NoError
              /\ source' = line
              /\ yielded' = read.tokens
              /\ out' = <<Printed(step2_PRINT(EVAL(read.tokens)))>>
    /\ pc' = "printed"
    /\ UNCHANGED <<impl, stdin_eof, current_char_index, printer_vars,
                   discarded_before, direct_vars>>

(* read_str raises EOFError inside READ: `except EOFError: break` *)
Step2Break ==
    /\ impl = "step2"
    /\ pc = "prompt"
    /\ \E line \in Sources :
          /\ step2_READ(line).raised = EOFError
          /\ source' = line
    /\ yielded' = <<>>
    /\ out' = <<>>
    /\ pc' = "exited"
    /\ UNCHANGED <<impl, stdin_eof, current_char_index, printer_vars,
                   discarded_before, direct_vars>>

---------------------------------------------------------------------------
(* The sessions of the two scripts *)

Next ==
    \/ Step1Input
    \/ LexNext
    \/ Step2Print
    \/ Step2Break
    \/ LoopBack
    \/ InputEOF

Spec == Init /\ [][Next]_vars

(* The interpreter runs the generator and PRINT's loop to their end. *)
FairSpec == Spec /\ WF_vars(LexNext)

---------------------------------------------------------------------------
(* PRINT and READ of step1 applied to token lists *)

TokenSamples ==
    {LeftParen, RightParen, Symbol(<<"a">>), Symbol(<<"_">>),
     PyInt(0), PyInt(1), PyStr(<<>>), PyStr(<<"a">>)}

TokenLists == SeqsUpTo(TokenSamples, MaxToks)

DirectInit ==
    /\ impl = "step1"
    /\ pc = "direct"
    /\ stdin_eof = FALSE
    /\ source = <<>>
    /\ current_char_index = 0
    /\ yielded = <<>>
    /\ strs = <<>>
    /\ previous = None
    /\ out = <<>>
    /\ discarded_before = FALSE
    /\ tokens \in TokenLists
    /\ rendered = <<>>
    /\ rerendered = Printed(<<>>)

DirectPRINT ==
    /\ pc = "direct"
    /\ rendered' = PRINT(tokens)
    /\ pc' = "rendered"
    /\ UNCHANGED <<impl, stdin_eof, lexer_vars, printer_vars, out, discarded_before,
                   tokens, rerendered>>

DirectReread ==
    /\ pc = "rendered"
    /\ LET r == READ(rendered)
       IN  rerendered' = IF r.raised # NoError THEN PrintedError(r.raised)
                         ELSE Printed(PRINT(EVAL(r.tokens)))
    /\ pc' = "done"
    /\ UNCHANGED <<impl, stdin_eof, lexer_vars, printer_vars, out, discarded_before,
                   tokens, rendered>>

DirectNext == DirectPRINT \/ DirectReread

SpecPrint == DirectInit /\ [][DirectNext]_vars

---------------------------------------------------------------------------
(* The printer's contract: the adjacency table keyed on token kinds, and   *)
(* canonical spacing, the layout that table produces.                      *)

Kind(token) ==
    CASE token.type = "LeftParen" -> "OpenDelimiter"
      [] token.type = "RightParen" -> "CloseDelimiter"
      [] OTHER -> "Other"

InsertSpace(previous_kind, current_kind) ==
    \/ previous_kind = "Other" /\ current_kind \in {"OpenDelimiter", "Other"}
    \/ previous_kind = "CloseDelimiter" /\ current_kind \in {"OpenDelimiter", "Other"}

RECURSIVE Layout(_, _)
Layout(toks, k) ==
    IF k = 0 THEN <<>>
    ELSE Layout(toks, k - 1)
           \o (IF k > 1 /\ InsertSpace(Kind(toks[k - 1]), Kind(toks[k]))
               THEN <<" ">> ELSE <<>>)
           \o current_str(toks[k])

CanonicalSources ==
    {s \in {Layout(toks, Len(toks)) : toks \in SeqsUpTo(TokenSamples, MaxLen)} :
        Len(s) <= MaxLen}

IsError(printed) == printed.error # NoError

(* C1: a line in canonical spacing that lexes without error is printed     *)
(* back unchanged by step1's loop: PRINT(READ(s)) = s.                     *)
C1_RoundTripCanonical ==
    (impl = "step1" /\ pc = "printed" /\ source \in CanonicalSources
        /\ ~IsError(out[1]))
    => out = <<Printed(source)>>

(* C2: PRINT puts exactly one space between two adjacent tokens when the   *)
(* adjacency table of their kinds says so, and none otherwise or before    *)
(* the first token, whatever the tokens' payloads.                         *)
C2_SpacingByKindOnly ==
    pc \in {"rendered", "done"} => rendered = Layout(tokens, Len(tokens))

(* C6: rendering is idempotent on well-formed token lists:                 *)
(* PRINT(READ(PRINT(ts))) = PRINT(ts).                                     *)
C6_IdempotentRendering ==
    pc = "done" => rerendered = Printed(rendered)

(* C3: every Symbol lex yields has a non-empty name holding no whitespace, *)
(* no comma and no parenthesis.                                            *)
C3_SymbolNames ==
    impl = "step1" =>
        \A k \in 1..Len(yielded) :
            yielded[k].type = "Symbol" =>
                /\ yielded[k].text # <<>>
                /\ \A n \in 1..Len(yielded[k].text) :
                       yielded[k].text[n] \notin WHITESPACE_CHARS \cup PARENS

NonPrintableAt(src) == {i \in 0..(Len(src) - 1) : At(src, i) \notin PRINTABLE_ASCII_CHARS}

Least(S) == CHOOSE i \in S : \A j \in S : i <= j

(* C4: a line holding a character outside printable ASCII fails: with the  *)
(* invalid-character error at the first such index, or with an error       *)
(* raised before the cursor got there; and no token yielded holds such a   *)
(* character.                                                              *)
C4_InvalidCharacterRejected ==
    (impl = "step1" /\ pc = "printed" /\ NonPrintableAt(source) # {}) =>
        /\ IsError(out[1])
        /\ \/ out[1].error = NonPrintable(Least(NonPrintableAt(source)))
           \/ current_char_index < Least(NonPrintableAt(source))
        /\ \A k \in 1..Len(yielded) : \A n \in 1..Len(yielded[k].text) :
               yielded[k].text[n] \in PRINTABLE_ASCII_CHARS

(* The end of the maximal run of decimal digits starting at i. *)
DigitRunEnd(src, i) ==
    Least({e \in i..Len(src) : e = Len(src) \/ At(src, e) \notin INT_CHARS})

RECURSIVE Decimal(_)
Decimal(digits) ==
    IF digits = <<>> THEN 0
    ELSE 10 * Decimal(SubSeq(digits, 1, Len(digits) - 1))
           + DigitValue(digits[Len(digits)])

AtDigit ==
    /\ impl = "step1"
    /\ pc = "PRINT"
    /\ current_char_index < Len(source)
    /\ At(source, current_char_index) \in INT_CHARS

(* C5: when lex meets a digit, the maximal run of digits is the integer    *)
(* token if whitespace, a comma, a parenthesis or the end follows it;      *)
(* otherwise lexing fails with the malformed-number error and no integer   *)
(* token is yielded for the run.                                           *)
C5_MalformedNumber ==
    [][AtDigit =>
        LET e == DigitRunEnd(source, current_char_index)
        IN  IF e < Len(source) /\ At(source, e) \notin WHITESPACE_CHARS \cup PARENS
            THEN /\ pc' = "printed"
                 /\ out'[1].error.kind = ValueError(<<>>).kind
                 /\ yielded' = yielded
            ELSE /\ yielded' = Append(yielded,
                                  PyInt(Decimal(Slice(source, current_char_index, e))))
                 /\ current_char_index' = e]_vars

LaterQuotes(src, i) == {j \in (i + 1)..(Len(src) - 1) : At(src, j) = "\""}

AtQuote ==
    /\ impl = "step1"
    /\ pc = "PRINT"
    /\ current_char_index < Len(source)
    /\ At(source, current_char_index) = "\""

(* C7: when lex meets a '"' at index i as the start of a token: with no    *)
(* later '"' the line fails with the unbalanced-quotes error reporting i   *)
(* and no token is yielded for it; with the next '"' at j the string token *)
(* is source[i+1..j-1], holds no '"', and scanning resumes at j+1.         *)
C7_StringScan ==
    [][AtQuote =>
        LET i == current_char_index
        IN  IF LaterQuotes(source, i) = {}
            THEN /\ pc' = "printed"
                 /\ out' = <<PrintedError(UnbalancedQuotes(i))>>
                 /\ yielded' = yielded
            ELSE LET j == Least(LaterQuotes(source, i))
                     value == [n \in 1..(j - i - 1) |-> At(source, i + n)]
                 IN  /\ yielded' = Append(yielded, PyStr(value))
                     /\ \A n \in 1..Len(value) : value[n] # "\""
                     /\ current_char_index' = j + 1
                     /\ pc' = "PRINT"]_vars

(* An empty string literal was yielded, then the quote at index 2 had no   *)
(* partner.                                                                *)
C7_Witness ==
    /\ impl = "step1"
    /\ pc = "printed"
    /\ source = <<"\"", "\"", "\"">>
    /\ yielded = <<PyStr(<<>>)>>
    /\ out = <<PrintedError(UnbalancedQuotes(2))>>

(* C8: in both loops a line whose lexing raises never ends the loop: its   *)
(* message is printed and the next prompt follows; the loop ends only on   *)
(* end-of-input at the read itself.                                        *)
C8_ErrorsNeverEndLoop ==
    /\ pc = "exited" => stdin_eof
    /\ (impl = "step1" /\ pc = "printed" /\ lex(source).raised # NoError)
          => out = <<PrintedError(lex(source).raised)>>
    /\ (impl = "step2" /\ pc = "printed") => step2_READ(source).raised = NoError

Lexing == impl = "step1" /\ pc = "PRINT"

OnlyParens(src) == \A n \in 1..Len(src) : src[n] \in PARENS

(* C9: lex terminates on every line: each pass of its loop that goes on    *)
(* moves the cursor forward, the cursor never passes len(source), and the  *)
(* line ends either exhausted with the cursor at len(source) or with an    *)
(* error.  A line of parentheses only, balanced or not, never fails and    *)
(* yields one delimiter token per character, in order.                     *)
C9_LexTerminates ==
    /\ [][(Lexing /\ pc' = "PRINT") => current_char_index' > current_char_index]_vars
    /\ [](current_char_index <= Len(source))
    /\ [](Lexing => <>(pc = "printed"))
    /\ []((impl = "step1" /\ pc = "printed" /\ ~IsError(out[1]))
             => current_char_index = Len(source))
    /\ []((impl = "step1" /\ pc = "printed" /\ OnlyParens(source))
             => /\ ~IsError(out[1])
                /\ yielded = [n \in 1..Len(source) |->
                                 IF source[n] = "(" THEN LeftParen ELSE RightParen])

(* An unbalanced line of parentheses was lexed to its end. *)
C9_Witness ==
    /\ impl = "step1"
    /\ pc = "printed"
    /\ source = <<")", "(", "(">>
    /\ yielded = <<RightParen, LeftParen, LeftParen>>
    /\ current_char_index = 3

(* C10: a failed line is discarded as a whole: all that is printed for it  *)
(* is the error message; and whatever failed earlier, a line's output is   *)
(* that of printing its own tokens afresh.                                 *)
C10_FailedLineDiscarded ==
    (impl = "step1" /\ pc = "printed") =>
        IF lex(source).raised # NoError
        THEN out = <<PrintedError(lex(source).raised)>>
        ELSE out = <<Printed(PRINT(lex(source).tokens))>>

(* After a line that failed with tokens already rendered, a later line of  *)
(* several tokens has been printed.                                        *)
C10_Witness ==
    /\ impl = "step1"
    /\ pc = "printed"
    /\ discarded_before
    /\ Len(yielded) >= 2
    /\ out = <<Printed(source)>>

=============================================================================
